---- MODULE Spec2Model ----
(***************************************************************************)
(* Model of the logx facade (package logx, logs.go): the process-wide      *)
(* logging state, the atomic writer holder, the one-shot SetUp gate and    *)
(* the per-severity write functions, with goroutines interleaved at the    *)
(* granularity of their atomic loads and stores.                           *)
(***************************************************************************)
EXTENDS Integers, Naturals, Sequences, FiniteSets, TLC

\* ------------------------------------------------------------------ bounds
MaxLevel == 4
MaxConsoles == 3
NumSetup == 2
NumCustom == 2

\* -------------------------------------------------------- program constants
DebugLevel == 0
InfoLevel == 1
ErrorLevel == 2
SevereLevel == 3

jsonEncodingType == 0
plainEncodingType == 1

NoLevel == 0 - 1

\* ------------------------------------------------------------------ writers
Writer(k, i) == [k |-> k, i |-> i]
Nil == Writer("nil", 0)
nopWriter == Writer("nop", 0)
FileWriter == Writer("file", 0)
Customs == {Writer("custom", i) : i \in 1..NumCustom}
ConsoleWriter(i) == Writer("console", i)

\* --------------------------------------------------------------- goroutines
Proc(k, i) == <<k, i>>
Main == Proc("main", 0)
WriterProcs == {Proc("g", 1)}
SetupProcs == {Proc("s", i) : i \in 1..NumSetup}
Procs == {Main} \cup WriterProcs \cup SetupProcs

\* ------------------------------------------------------------------ LogConf
LogConf(mode, path, svc, level, enc, tf) ==
  [Mode |-> mode, Path |-> path, ServiceName |-> svc, Level |-> level,
   Encoding |-> enc, TimeFormat |-> tf]
NoConf == LogConf("", "", "", "", "", "")
Confs == {
  LogConf("console", "", "", "info", "json", ""),
  LogConf("", "", "", "debug", "plain", "custom"),
  LogConf("file", "", "", "error", "plain", ""),
  LogConf("file", "logs", "", "severe", "json", ""),
  LogConf("volume", "", "", "", "json", ""),
  LogConf("volume", "", "svc", "error", "plain", "custom") }

\* ------------------------------------------------------- public entry points
\* Every public write function and the internal write function it calls.
WriteFnOf(entry) ==
  CASE entry \in {"Debug", "Debugf", "Debugv", "Debugw"} -> "writeDebug"
    [] entry \in {"Error", "Errorf", "Errorv", "Errorw"} -> "writeError"
    [] entry \in {"ErrorStack", "ErrorStackf"} -> "writeStack"
    [] entry \in {"Info", "Infof", "Infov", "Infow"} -> "writeInfo"
    [] entry \in {"Severe", "Severef"} -> "writeSevere"
    [] entry \in {"Slow", "Slowf", "Slowv", "Sloww"} -> "writeSlow"
    [] entry \in {"Stat", "Statf"} -> "writeStat"
GatedEntries == {"Debug", "Debugf", "Debugv", "Debugw", "Error", "Errorf", "Errorv",
                 "Errorw", "ErrorStack", "ErrorStackf", "Info", "Infof", "Infov",
                 "Infow", "Severe", "Severef", "Slow", "Slowf", "Slowv", "Sloww"}
StatEntries == {"Stat", "Statf"}

VARIABLES
  logLevel,     \* uint32 threshold
  encoding,     \* jsonEncodingType / plainEncodingType
  timeFormat,   \* "default" or the configured format
  disableLog,   \* uint32 flag
  disableStat,  \* uint32 flag
  writer,       \* the atomicWriter holder: Nil or a writer
  setupOnce,    \* sync.Once: "idle", "running", "done"
  closed,       \* writers whose Close has been called
  exited,       \* os.Exit has been called
  pc,           \* position of each goroutine
  loc,          \* locals of each goroutine's current facade call
  saved,        \* the writer Main got from its last Reset
  hist          \* observations: what has happened so far

vars == <<logLevel, encoding, timeFormat, disableLog, disableStat, writer, setupOnce,
          closed, exited, pc, loc, saved, hist>>

globals == <<logLevel, encoding, timeFormat, disableLog, disableStat, writer, setupOnce>>

\* Locals of a call: its arguments (fn, c, must, w), what it has read and
\* computed (lvl, stat, w, err, caller, won, io), and what was the case when it
\* started or while it ran (afterDisable, gotAfterDisable, pristine, scnSt,
\* scnW, rearm, moved, lazy), the number n of records it handed to a writer,
\* the writer that was in the holder then (held), and for a SetUp call of
\* Main the level, encoding, time format and holder it found (pre).
NoLoc == [fn |-> "none", w |-> Nil, c |-> NoConf, err |-> "nil", must |-> FALSE,
          caller |-> FALSE, lvl |-> NoLevel, stat |-> NoLevel, won |-> FALSE,
          io |-> TRUE, afterDisable |-> FALSE, gotAfterDisable |-> FALSE,
          pristine |-> FALSE, scnSt |-> "none", scnW |-> Nil, moved |-> FALSE,
          lazy |-> FALSE, n |-> 0, held |-> Nil, rearm |-> "none",
          pre |-> <<0, jsonEncodingType, "default", Nil>>]

NoHist == [disableDone |-> FALSE, pristine |-> TRUE, initRuns |-> 0, ran |-> {},
           winConf |-> NoConf, winErr |-> "nil", statOff |-> FALSE, rearm |-> "none",
           scnSt |-> "none", scnW |-> Nil, scnPrev |-> Nil, lastDst |-> Nil]

\* State after package initialisation (logs.go:19-29): logLevel is the zero
\* value of uint32, encoding is jsonEncodingType, the holder is empty.
Init ==
  /\ logLevel = 0
  /\ encoding = jsonEncodingType
  /\ timeFormat = "default"
  /\ disableLog = 0
  /\ disableStat = 0
  /\ writer = Nil
  /\ setupOnce = "idle"
  /\ closed = {}
  /\ exited = FALSE
  /\ pc = [p \in Procs |-> "idle"]
  /\ loc = [p \in Procs |-> NoLoc]
  /\ saved = Nil
  /\ hist = NoHist

WritePcs == {"stat_gate", "load", "storeIfNil", "emit", "exit", "ret"}
InFlight(p) == pc[p] \in WritePcs

Idle(p) == ~exited /\ pc[p] = "idle"
At(p, l) == ~exited /\ pc[p] = l
Goto(p, l) == pc' = [pc EXCEPT ![p] = l]

\* Main runs its facade calls one after another; any of them other than the
\* ones a scenario is made of ends the Reset/SetWriter scenario.
ClearScn(p, h) == IF p = Main THEN [h EXCEPT !.scnSt = "none", !.scnW = Nil, !.scnPrev = Nil,
                                                !.rearm = "none"]
                  ELSE h

\* What a facade call other than a write call does to the observations:
\* SetUp, SetLevel, SetWriter and Disable end the pristine state.
Observe(p, endsPristine) ==
  [ClearScn(p, hist) EXCEPT !.pristine = hist.pristine /\ ~endsPristine]

\* A Store or Swap on the holder by q while other goroutines are inside a
\* write call.
MarkMoved(q, l) ==
  [p \in Procs |-> IF p # q /\ InFlight(p) THEN [l[p] EXCEPT !.moved = TRUE] ELSE l[p]]

\* newConsoleWriter(): a console writer that is none of the writers that are
\* still referenced anywhere.
InUse == {writer, saved, hist.lastDst, hist.scnW, hist.scnPrev} \cup closed
         \cup {loc[p].w : p \in Procs} \cup {loc[p].held : p \in Procs}
         \cup {loc[p].scnW : p \in Procs}
FreeConsoles == {i \in 1..MaxConsoles : ConsoleWriter(i) \notin InUse}
newConsoleWriter == ConsoleWriter(CHOOSE i \in FreeConsoles : \A j \in FreeConsoles : i <= j)

\* --------------------------------------------------------- atomicWriter ops
\* writer.Load(): the writer in the holder, Nil when there is none.
Load == writer
\* writer.StoreIfNil(v): installs v only when the holder is empty and returns
\* the writer that is in the holder afterwards.
StoreIfNil(v) == IF writer = Nil THEN v ELSE writer
\* writer.Swap(v): the holder afterwards; the old writer is Load.
Swap(v) == v
\* writer.Store(v): the holder afterwards.
Store(v) == v

\* ------------------------------------------------------------------- gates
\* The comparison the wrong way round.
shallLog_Inverted(level) == logLevel >= level

shallLog(level) == logLevel <= level

\* The stat flag not consulted.
shallLogStat_Ignored == TRUE

shallLogStat == disableStat = 0

\* The fields returned without the caller field.
addCaller_Dropped == FALSE

\* addCaller appends the caller field to the fields handed to the writer.
addCaller == TRUE

\* ------------------------------------------------------------- write calls
\* Entry into a write call of goroutine p: what it read at its gate, what
\* had happened before it started, and where it goes next. A call whose gate
\* says no returns at once.
BeginCall(p, base, fn, lvl, stat, caller, next) ==
  /\ loc' = [loc EXCEPT ![p] =
       [base EXCEPT !.fn = fn, !.lvl = lvl, !.stat = stat, !.caller = caller,
                    !.afterDisable = hist.disableDone,
                    !.pristine = hist.pristine,
                    !.scnSt = IF p = Main THEN hist.scnSt ELSE "none",
                    !.scnW = IF p = Main THEN hist.scnW ELSE Nil,
                    !.rearm = IF p = Main THEN hist.rearm ELSE "none"]]
  /\ hist' = ClearScn(p, hist)
  /\ Goto(p, next)
  /\ UNCHANGED <<globals, closed, exited, saved>>

writeDebug(p) ==
  /\ Idle(p)
  /\ BeginCall(p, NoLoc, "writeDebug", logLevel, NoLevel, addCaller,
               IF shallLog(DebugLevel) THEN "load" ELSE "ret")

writeError(p) ==
  /\ Idle(p)
  /\ BeginCall(p, NoLoc, "writeError", logLevel, NoLevel, addCaller,
               IF shallLog(ErrorLevel) THEN "load" ELSE "ret")

writeInfo(p) ==
  /\ Idle(p)
  /\ BeginCall(p, NoLoc, "writeInfo", logLevel, NoLevel, addCaller,
               IF shallLog(InfoLevel) THEN "load" ELSE "ret")

writeSevere(p) ==
  /\ Idle(p)
  /\ BeginCall(p, NoLoc, "writeSevere", logLevel, NoLevel, FALSE,
               IF shallLog(SevereLevel) THEN "load" ELSE "ret")

writeSlow(p) ==
  /\ Idle(p)
  /\ BeginCall(p, NoLoc, "writeSlow", logLevel, NoLevel, addCaller,
               IF shallLog(ErrorLevel) THEN "load" ELSE "ret")

writeStack(p) ==
  /\ Idle(p)
  /\ BeginCall(p, NoLoc, "writeStack", logLevel, NoLevel, FALSE,
               IF shallLog(ErrorLevel) THEN "load" ELSE "ret")

\* writeStat: shallLogStat() && shallLog(InfoLevel) are two atomic loads; the
\* second is not made when the first says no.
writeStat(p) ==
  /\ Idle(p)
  /\ BeginCall(p, NoLoc, "writeStat", NoLevel, disableStat, addCaller,
               IF shallLogStat THEN "stat_gate" ELSE "ret")

writeStatLevel(p) ==
  /\ At(p, "stat_gate")
  /\ loc' = [loc EXCEPT ![p].lvl = logLevel]
  /\ Goto(p, IF shallLog(InfoLevel) THEN "load" ELSE "ret")
  /\ UNCHANGED <<globals, closed, exited, saved, hist>>

\* The public entry points: each formats its arguments and calls its write
\* function.
WriteEntry(p, entry) ==
  CASE WriteFnOf(entry) = "writeDebug" -> writeDebug(p)
    [] WriteFnOf(entry) = "writeError" -> writeError(p)
    [] WriteFnOf(entry) = "writeStack" -> writeStack(p)
    [] WriteFnOf(entry) = "writeInfo" -> writeInfo(p)
    [] WriteFnOf(entry) = "writeSevere" -> writeSevere(p)
    [] WriteFnOf(entry) = "writeSlow" -> writeSlow(p)
    [] WriteFnOf(entry) = "writeStat" -> writeStat(p)

\* Alert behind the level gate of the Severe logs.
Alert_Gated(p) ==
  /\ Idle(p)
  /\ BeginCall(p, NoLoc, "Alert", NoLevel, NoLevel, FALSE,
               IF shallLog(SevereLevel) THEN "load" ELSE "ret")

\* Alert goes to the writer without consulting any gate.
Alert(p) ==
  /\ Idle(p)
  /\ BeginCall(p, NoLoc, "Alert", NoLevel, NoLevel, FALSE, "load")

\* Must without the check for a nil error.
Must_NoNilCheck(p, err) ==
  /\ Idle(p)
  /\ BeginCall(p, [NoLoc EXCEPT !.err = err], "Must", NoLevel, NoLevel, FALSE, "load")

\* Must(err): returns on a nil error, otherwise hands the message to the
\* writer's Severe and exits.
Must(p, err) ==
  /\ Idle(p)
  /\ BeginCall(p, [NoLoc EXCEPT !.err = err], "Must", NoLevel, NoLevel, FALSE,
               IF err = "nil" THEN "ret" ELSE "load")

\* getWriter returning what it loaded without the check for nil.
getWriter_NoNilCheck(p) ==
  /\ At(p, "load")
  /\ loc' = [loc EXCEPT ![p].w = Load, ![p].gotAfterDisable = hist.disableDone]
  /\ Goto(p, "emit")
  /\ UNCHANGED <<globals, closed, exited, saved, hist>>

\* getWriter, first half: w := writer.Load().
getWriter(p) ==
  /\ At(p, "load")
  /\ loc' = [loc EXCEPT ![p].w = Load, ![p].gotAfterDisable = hist.disableDone]
  /\ Goto(p, IF Load = Nil THEN "storeIfNil" ELSE "emit")
  /\ UNCHANGED <<globals, closed, exited, saved, hist>>

\* getWriter keeping the console writer it made instead of the writer that
\* StoreIfNil returned.
getWriterStoreIfNil_IgnoresResult(p) ==
  /\ At(p, "storeIfNil")
  /\ FreeConsoles # {}
  /\ writer' = StoreIfNil(newConsoleWriter)
  /\ loc' = [loc EXCEPT ![p].w = newConsoleWriter, ![p].lazy = TRUE,
                        ![p].gotAfterDisable = hist.disableDone]
  /\ Goto(p, "emit")
  /\ UNCHANGED <<logLevel, encoding, timeFormat, disableLog, disableStat, setupOnce,
                 closed, exited, saved, hist>>

\* getWriter installing its console writer with Store instead of StoreIfNil.
getWriterStoreIfNil_Store(p) ==
  /\ At(p, "storeIfNil")
  /\ FreeConsoles # {}
  /\ writer' = Store(newConsoleWriter)
  /\ loc' = [loc EXCEPT ![p].w = Store(newConsoleWriter), ![p].lazy = TRUE,
                        ![p].gotAfterDisable = hist.disableDone]
  /\ Goto(p, "emit")
  /\ UNCHANGED <<logLevel, encoding, timeFormat, disableLog, disableStat, setupOnce,
                 closed, exited, saved, hist>>

\* getWriter, second half: w = writer.StoreIfNil(newConsoleWriter()).
getWriterStoreIfNil(p) ==
  /\ At(p, "storeIfNil")
  /\ FreeConsoles # {}
  /\ writer' = StoreIfNil(newConsoleWriter)
  /\ loc' = [loc EXCEPT ![p].w = StoreIfNil(newConsoleWriter), ![p].lazy = TRUE,
                        ![p].gotAfterDisable = hist.disableDone]
  /\ Goto(p, "emit")
  /\ UNCHANGED <<logLevel, encoding, timeFormat, disableLog, disableStat, setupOnce,
                 closed, exited, saved, hist>>

\* The call on the writer that getWriter returned: one record handed to it.
\* Must goes on to exit the process.
Deliver(p) ==
  /\ At(p, "emit")
  /\ loc' = [loc EXCEPT ![p].n = loc[p].n + 1, ![p].held = writer,
                        ![p].pristine = loc[p].pristine /\ hist.pristine]
  /\ hist' = IF p = Main
             THEN [hist EXCEPT !.lastDst = IF loc[p].moved THEN Nil ELSE loc[p].w]
             ELSE hist
  /\ Goto(p, IF loc[p].fn = "Must" THEN "exit" ELSE "ret")
  /\ UNCHANGED <<globals, closed, exited, saved>>

\* Must, last statement: os.Exit(1). Nothing runs after it.
Exit(p) ==
  /\ At(p, "exit")
  /\ exited' = TRUE
  /\ Goto(p, "ret")
  /\ UNCHANGED <<globals, closed, loc, saved, hist>>

\* The write call returns to its caller.
Return(p) ==
  /\ At(p, "ret")
  /\ loc' = [loc EXCEPT ![p] = NoLoc]
  /\ Goto(p, "idle")
  /\ UNCHANGED <<globals, closed, exited, saved, hist>>

\* ---------------------------------------------------------- facade, admin
SetLevel(p, level) ==
  /\ Idle(p)
  /\ logLevel' = level
  /\ hist' = Observe(p, TRUE)
  /\ UNCHANGED <<encoding, timeFormat, disableLog, disableStat, writer, setupOnce,
                 closed, exited, pc, loc, saved>>

DisableStat(p) ==
  /\ Idle(p)
  /\ disableStat' = 1
  /\ hist' = [Observe(p, FALSE) EXCEPT !.statOff = TRUE]
  /\ UNCHANGED <<logLevel, encoding, timeFormat, disableLog, writer, setupOnce,
                 closed, exited, pc, loc, saved>>

\* Disable, first statement: atomic.StoreUint32(&disableLog, 1).
Disable(p) ==
  /\ Idle(p)
  /\ disableLog' = 1
  /\ hist' = Observe(p, TRUE)
  /\ Goto(p, "disable_store")
  /\ UNCHANGED <<logLevel, encoding, timeFormat, disableStat, writer, setupOnce,
                 closed, exited, loc, saved>>

\* Disable, second statement: writer.Store(nopWriter{}); then it returns.
DisableStore(p) ==
  /\ At(p, "disable_store")
  /\ writer' = Store(nopWriter)
  /\ loc' = MarkMoved(p, loc)
  /\ hist' = [hist EXCEPT !.disableDone = TRUE, !.lastDst = Nil]
  /\ Goto(p, "idle")
  /\ UNCHANGED <<logLevel, encoding, timeFormat, disableLog, disableStat, setupOnce,
                 closed, exited, saved>>

\* SetWriter storing only when the logging is disabled.
SetWriter_Inverted(p, w) ==
  /\ Idle(p)
  /\ loc' = [loc EXCEPT ![p] = IF disableLog # 0 THEN [NoLoc EXCEPT !.w = w] ELSE NoLoc]
  /\ Goto(p, IF disableLog # 0 THEN "setwriter_store" ELSE "idle")
  /\ hist' = IF p = Main /\ hist.scnSt = "reset"
             THEN [hist EXCEPT !.pristine = FALSE, !.scnW = w,
                               !.scnSt = IF disableLog # 0 THEN "setting" ELSE "set"]
             ELSE Observe(p, TRUE)
  /\ UNCHANGED <<globals, closed, exited, saved>>

\* SetWriter, the check: atomic.LoadUint32(&disableLog) == 0.
SetWriter(p, w) ==
  /\ Idle(p)
  /\ loc' = [loc EXCEPT ![p] = IF disableLog = 0 THEN [NoLoc EXCEPT !.w = w] ELSE NoLoc]
  /\ Goto(p, IF disableLog = 0 THEN "setwriter_store" ELSE "idle")
  /\ hist' = IF p = Main /\ hist.scnSt = "reset"
             THEN [hist EXCEPT !.pristine = FALSE, !.scnW = w,
                               !.scnSt = IF disableLog = 0 THEN "setting" ELSE "set"]
             ELSE Observe(p, TRUE)
  /\ UNCHANGED <<globals, closed, exited, saved>>

\* SetWriter, the store: writer.Store(w).
SetWriterStore(p) ==
  /\ At(p, "setwriter_store")
  /\ writer' = Store(loc[p].w)
  /\ loc' = [MarkMoved(p, loc) EXCEPT ![p] = NoLoc]
  /\ hist' = [hist EXCEPT !.lastDst = Nil,
                          !.scnSt = IF p = Main /\ hist.scnSt = "setting" THEN "set"
                                    ELSE hist.scnSt]
  /\ Goto(p, "idle")
  /\ UNCHANGED <<logLevel, encoding, timeFormat, disableLog, disableStat, setupOnce,
                 closed, exited, saved>>

\* A Reset that also makes the next SetUp run its initialization again.
Reset_Rearms(p) ==
  /\ Idle(p)
  /\ writer' = Swap(Nil)
  /\ setupOnce' = "idle"
  /\ loc' = [MarkMoved(p, loc) EXCEPT ![p] = [NoLoc EXCEPT !.w = Load]]
  /\ hist' = IF p = Main
             THEN [hist EXCEPT !.scnSt = "reset", !.scnW = Nil,
                               !.scnPrev = hist.lastDst, !.lastDst = Nil,
                               !.rearm = IF setupOnce = "done" THEN "detached" ELSE "none"]
             ELSE [hist EXCEPT !.lastDst = Nil]
  /\ Goto(p, "reset_ret")
  /\ UNCHANGED <<logLevel, encoding, timeFormat, disableLog, disableStat,
                 closed, exited, saved>>

\* Reset: writer.Swap(nil).
Reset(p) ==
  /\ Idle(p)
  /\ writer' = Swap(Nil)
  /\ loc' = [MarkMoved(p, loc) EXCEPT ![p] = [NoLoc EXCEPT !.w = Load]]
  /\ hist' = IF p = Main
             THEN [hist EXCEPT !.scnSt = "reset", !.scnW = Nil,
                               !.scnPrev = hist.lastDst, !.lastDst = Nil,
                               !.rearm = IF setupOnce = "done" THEN "detached" ELSE "none"]
             ELSE [hist EXCEPT !.lastDst = Nil]
  /\ Goto(p, "reset_ret")
  /\ UNCHANGED <<logLevel, encoding, timeFormat, disableLog, disableStat, setupOnce,
                 closed, exited, saved>>

\* Reset returns the writer it swapped out; Main keeps it.
ResetReturn(p) ==
  /\ At(p, "reset_ret")
  /\ saved' = IF p = Main THEN loc[p].w ELSE saved
  /\ loc' = [loc EXCEPT ![p] = NoLoc]
  /\ Goto(p, "idle")
  /\ UNCHANGED <<globals, closed, exited, hist>>

\* Close, the swap: w := writer.Swap(nil); nothing more when w is nil.
Close(p) ==
  /\ Idle(p)
  /\ writer' = Swap(Nil)
  /\ loc' = [MarkMoved(p, loc) EXCEPT ![p] = IF Load # Nil THEN [NoLoc EXCEPT !.w = Load]
                                                 ELSE NoLoc]
  /\ hist' = [Observe(p, FALSE) EXCEPT
                !.lastDst = Nil,
                !.rearm = IF p # Main THEN hist.rearm
                          ELSE IF setupOnce = "done" THEN "detached" ELSE "none"]
  /\ Goto(p, IF Load # Nil THEN "close_w" ELSE "idle")
  /\ UNCHANGED <<logLevel, encoding, timeFormat, disableLog, disableStat, setupOnce,
                 closed, exited, saved>>

\* Close, the close: w.(io.Closer).Close().
CloseWriter(p) ==
  /\ At(p, "close_w")
  /\ closed' = closed \cup {loc[p].w}
  /\ loc' = [loc EXCEPT ![p] = NoLoc]
  /\ Goto(p, "idle")
  /\ UNCHANGED <<globals, exited, saved, hist>>

\* ------------------------------------------------------------------- SetUp
\* setupLogLevel: the threshold after it; a Level that is none of the four
\* names leaves the threshold alone.
setupLogLevel(c) ==
  CASE c.Level = "debug" -> DebugLevel
    [] c.Level = "info" -> InfoLevel
    [] c.Level = "error" -> ErrorLevel
    [] c.Level = "severe" -> SevereLevel
    [] OTHER -> logLevel

\* path.Join(c.Path, c.ServiceName, sysx.Hostname()): empty elements are
\* dropped, and the host name is never empty.
PathJoin(dir, svc) == IF dir = "" /\ svc = "" THEN "host" ELSE "joined"

\* newFileWriter: the error it returns; ioOk says whether the files could be
\* opened.
newFileWriter(c, ioOk) ==
  IF c.Path = "" THEN "ErrLogPathNotSet" ELSE IF ioOk THEN "nil" ELSE "ErrIO"

\* setupWithFiles: the error it returns; on "nil" it has called SetWriter.
setupWithFiles(c, ioOk) == newFileWriter(c, ioOk)

\* setupWithVolume without its check of the service name.
setupWithVolume_NoCheck(c, ioOk) ==
  setupWithFiles([c EXCEPT !.Path = PathJoin(c.Path, c.ServiceName)], ioOk)

\* setupWithVolume: the error it returns.
setupWithVolume(c, ioOk) ==
  IF c.ServiceName = "" THEN "ErrLogServiceNameNotSet"
  ELSE setupWithFiles([c EXCEPT !.Path = PathJoin(c.Path, c.ServiceName)], ioOk)

\* SetUp(c), and MustSetup(c) when must: the call begins.
SetUp(p, c, must) ==
  /\ Idle(p)
  /\ loc' = [loc EXCEPT ![p] =
       [NoLoc EXCEPT !.c = c, !.must = must,
                     !.pre = IF p = Main THEN <<logLevel, encoding, timeFormat, writer>>
                             ELSE NoLoc.pre]]
  /\ hist' = [Observe(p, TRUE) EXCEPT !.rearm = hist.rearm]
  /\ Goto(p, "once")
  /\ UNCHANGED <<globals, closed, exited, saved>>

\* A once that tests and sets its flag without a lock: a caller that arrives
\* while f runs runs f too.
OnceDo_NoLock(p) ==
  /\ At(p, "once")
  /\ IF setupOnce # "done"
     THEN /\ setupOnce' = "running"
          /\ loc' = [loc EXCEPT ![p].won = TRUE]
          /\ hist' = [hist EXCEPT !.initRuns = hist.initRuns + 1, !.winConf = loc[p].c]
          /\ Goto(p, "su_level")
     ELSE /\ Goto(p, "setup_ret")
          /\ UNCHANGED <<setupOnce, loc, hist>>
  /\ UNCHANGED <<logLevel, encoding, timeFormat, disableLog, disableStat, writer,
                 closed, exited, saved>>

\* A once that does not make the later callers wait: a caller that arrives
\* while f runs returns at once.
OnceDo_NoWait(p) ==
  /\ At(p, "once")
  /\ IF setupOnce = "idle"
     THEN /\ setupOnce' = "running"
          /\ loc' = [loc EXCEPT ![p].won = TRUE]
          /\ hist' = [hist EXCEPT !.initRuns = hist.initRuns + 1, !.winConf = loc[p].c]
          /\ Goto(p, "su_level")
     ELSE /\ Goto(p, "setup_ret")
          /\ UNCHANGED <<setupOnce, loc, hist>>
  /\ UNCHANGED <<logLevel, encoding, timeFormat, disableLog, disableStat, writer,
                 closed, exited, saved>>

\* setupOnce.Do(f): the first caller runs f, a caller that arrives while f
\* runs waits for it, a caller that arrives after f has returned skips it.
OnceDo(p) ==
  /\ At(p, "once")
  /\ setupOnce # "running"
  /\ IF setupOnce = "idle"
     THEN /\ setupOnce' = "running"
          /\ loc' = [loc EXCEPT ![p].won = TRUE]
          /\ hist' = [hist EXCEPT !.initRuns = hist.initRuns + 1, !.winConf = loc[p].c]
          /\ Goto(p, "su_level")
     ELSE /\ Goto(p, "setup_ret")
          /\ UNCHANGED <<setupOnce, loc, hist>>
  /\ UNCHANGED <<logLevel, encoding, timeFormat, disableLog, disableStat, writer,
                 closed, exited, saved>>

Ran(p) == [hist EXCEPT !.ran = hist.ran \cup {p}]

\* The body, first statement: setupLogLevel(c).
SetUpLevel(p) ==
  /\ At(p, "su_level")
  /\ logLevel' = setupLogLevel(loc[p].c)
  /\ hist' = Ran(p)
  /\ Goto(p, "su_time")
  /\ UNCHANGED <<encoding, timeFormat, disableLog, disableStat, writer, setupOnce,
                 closed, exited, loc, saved>>

\* The body: if len(c.TimeFormat) > 0 { timeFormat = c.TimeFormat }.
SetUpTimeFormat(p) ==
  /\ At(p, "su_time")
  /\ timeFormat' = IF loc[p].c.TimeFormat # "" THEN loc[p].c.TimeFormat ELSE timeFormat
  /\ hist' = Ran(p)
  /\ Goto(p, "su_enc")
  /\ UNCHANGED <<logLevel, encoding, disableLog, disableStat, writer, setupOnce,
                 closed, exited, loc, saved>>

\* The body: switch c.Encoding.
SetUpEncoding(p) ==
  /\ At(p, "su_enc")
  /\ encoding' = IF loc[p].c.Encoding = "plain" THEN plainEncodingType ELSE jsonEncodingType
  /\ hist' = Ran(p)
  /\ Goto(p, "su_mode")
  /\ UNCHANGED <<logLevel, timeFormat, disableLog, disableStat, writer, setupOnce,
                 closed, exited, loc, saved>>

\* The body: switch c.Mode, up to the SetWriter call of the chosen setup.
SetUpMode(p, ioOk) ==
  /\ At(p, "su_mode")
  /\ hist' = [Ran(p) EXCEPT !.winErr =
                CASE loc[p].c.Mode = "file" -> setupWithFiles(loc[p].c, ioOk)
                  [] loc[p].c.Mode = "volume" -> setupWithVolume(loc[p].c, ioOk)
                  [] OTHER -> "nil"]
  /\ CASE loc[p].c.Mode = "file" ->
            /\ loc' = [loc EXCEPT ![p].err = setupWithFiles(loc[p].c, ioOk),
                                  ![p].io = ioOk,
                                  ![p].w = IF setupWithFiles(loc[p].c, ioOk) = "nil"
                                           THEN FileWriter ELSE Nil]
            /\ Goto(p, IF setupWithFiles(loc[p].c, ioOk) = "nil" THEN "su_setwriter"
                       ELSE "su_done")
       [] loc[p].c.Mode = "volume" ->
            /\ loc' = [loc EXCEPT ![p].err = setupWithVolume(loc[p].c, ioOk),
                                  ![p].io = ioOk,
                                  ![p].w = IF setupWithVolume(loc[p].c, ioOk) = "nil"
                                           THEN FileWriter ELSE Nil]
            /\ Goto(p, IF setupWithVolume(loc[p].c, ioOk) = "nil" THEN "su_setwriter"
                       ELSE "su_done")
       [] OTHER ->
            /\ ioOk
            /\ FreeConsoles # {}
            /\ loc' = [loc EXCEPT ![p].w = newConsoleWriter]
            /\ Goto(p, "su_setwriter")
  /\ UNCHANGED <<globals, closed, exited, saved>>

\* SetWriter as called by the setup: the check of disableLog.
SetUpSetWriter(p) ==
  /\ At(p, "su_setwriter")
  /\ loc' = [loc EXCEPT ![p].w = IF disableLog = 0 THEN loc[p].w ELSE Nil]
  /\ Goto(p, IF disableLog = 0 THEN "su_store" ELSE "su_done")
  /\ UNCHANGED <<globals, closed, exited, saved, hist>>

\* SetWriter as called by the setup: writer.Store(w).
SetUpStore(p) ==
  /\ At(p, "su_store")
  /\ writer' = Store(loc[p].w)
  /\ loc' = [MarkMoved(p, loc) EXCEPT ![p].w = Nil]
  /\ hist' = [hist EXCEPT !.lastDst = Nil]
  /\ Goto(p, "su_done")
  /\ UNCHANGED <<logLevel, encoding, timeFormat, disableLog, disableStat, setupOnce,
                 closed, exited, saved>>

\* f has returned: the Once is done.
OnceDone(p) ==
  /\ At(p, "su_done")
  /\ setupOnce' = "done"
  /\ Goto(p, "setup_ret")
  /\ UNCHANGED <<logLevel, encoding, timeFormat, disableLog, disableStat, writer,
                 closed, exited, loc, saved, hist>>

\* SetUp returns err; MustSetup passes it to Must, which returns on nil.
SetUpReturn(p) ==
  /\ At(p, "setup_ret")
  /\ loc' = [loc EXCEPT ![p] = IF loc[p].must /\ loc[p].err # "nil" THEN loc[p] ELSE NoLoc]
  /\ Goto(p, IF loc[p].must /\ loc[p].err # "nil" THEN "must" ELSE "idle")
  /\ hist' = IF p = Main /\ hist.rearm = "detached" THEN [hist EXCEPT !.rearm = "resetup"]
             ELSE hist
  /\ UNCHANGED <<globals, closed, exited, saved>>

\* MustSetup: Must(err) with the error SetUp returned.
MustSetup(p) ==
  /\ At(p, "must")
  /\ BeginCall(p, loc[p], "Must", NoLevel, NoLevel, FALSE, "load")

\* ------------------------------------------------------------ specifications
Entries == GatedEntries \cup StatEntries
Errs == {"nil", "fatal"}
Levels == 0..MaxLevel
WriterArgs == Customs \cup {Nil, saved}

WriteCall(p) ==
  \/ \E entry \in Entries : WriteEntry(p, entry)
  \/ Alert(p)

WriteStep(p) ==
  \/ writeStatLevel(p)
  \/ getWriter(p)
  \/ getWriterStoreIfNil(p)
  \/ Deliver(p)
  \/ Return(p)

MustStep(p) ==
  \/ getWriter(p)
  \/ getWriterStoreIfNil(p)
  \/ Deliver(p)
  \/ Exit(p)

SetUpStep(p) ==
  \/ OnceDo(p)
  \/ SetUpLevel(p)
  \/ SetUpTimeFormat(p)
  \/ SetUpEncoding(p)
  \/ \E ioOk \in BOOLEAN : SetUpMode(p, ioOk)
  \/ SetUpSetWriter(p)
  \/ SetUpStore(p)
  \/ OnceDone(p)
  \/ SetUpReturn(p)

\* Main makes its facade calls one after the other: it sets the level,
\* disables, installs and resets writers, and logs.
Next ==
  \/ \E level \in Levels : SetLevel(Main, level)
  \/ DisableStat(Main)
  \/ Disable(Main)
  \/ DisableStore(Main)
  \/ \E w \in WriterArgs : SetWriter(Main, w)
  \/ SetWriterStore(Main)
  \/ Reset(Main)
  \/ ResetReturn(Main)
  \/ \E err \in Errs : Must(Main, err)
  \/ Exit(Main)
  \/ WriteCall(Main)
  \/ WriteStep(Main)

Spec == Init /\ [][Next]_vars

\* Main sets the threshold, through SetLevel and through SetUp, and turns
\* the stat logs off, while the writer goroutines log.
NextGate ==
  \/ \E level \in Levels : SetLevel(Main, level)
  \/ DisableStat(Main)
  \/ \E c \in Confs : SetUp(Main, c, FALSE)
  \/ SetUpStep(Main)
  \/ \E p \in WriterProcs : WriteCall(p) \/ WriteStep(p)

SpecGate == Init /\ [][NextGate]_vars

\* Main disables the logging, before or after installing a writer, while it
\* and the writer goroutines log; nobody detaches the writer.
NextNoDetach ==
  \/ Disable(Main)
  \/ DisableStore(Main)
  \/ \E w \in Customs : SetWriter(Main, w)
  \/ SetWriterStore(Main)
  \/ \E p \in {Main} \cup WriterProcs : WriteCall(p) \/ WriteStep(p)

SpecNoDetach == Init /\ [][NextNoDetach]_vars

\* Several services of the process call SetUp or MustSetup, concurrently and
\* repeatedly, each with its own configuration.
NextSetup ==
  \E p \in SetupProcs :
    \/ \E c \in Confs, must \in BOOLEAN : SetUp(p, c, must)
    \/ SetUpStep(p)
    \/ MustSetup(p)
    \/ MustStep(p)

SpecSetup == Init /\ [][NextSetup]_vars

\* Main closes the logging while it and the writer goroutines log.
NextClose ==
  \/ Close(Main)
  \/ CloseWriter(Main)
  \/ \E p \in {Main} \cup WriterProcs : WriteCall(p) \/ WriteStep(p)

SpecClose == Init /\ [][NextClose]_vars

\* Main reconfigures the logging between its write calls: it sets the level,
\* turns the stat logs off, calls SetUp, installs and resets writers.
NextReconf ==
  \/ \E level \in Levels : SetLevel(Main, level)
  \/ DisableStat(Main)
  \/ \E c \in Confs : SetUp(Main, c, FALSE)
  \/ SetUpStep(Main)
  \/ \E w \in Customs : SetWriter(Main, w)
  \/ SetWriterStore(Main)
  \/ Reset(Main)
  \/ ResetReturn(Main)
  \/ WriteCall(Main)
  \/ WriteStep(Main)

SpecReconf == Init /\ [][NextReconf]_vars

\* Main calls SetUp, detaches the writer with Reset and Close, calls SetUp
\* again and logs.
NextRearm ==
  \/ \E c \in Confs : SetUp(Main, c, FALSE)
  \/ SetUpStep(Main)
  \/ Reset(Main)
  \/ ResetReturn(Main)
  \/ Close(Main)
  \/ CloseWriter(Main)
  \/ WriteCall(Main)
  \/ WriteStep(Main)

SpecRearm == Init /\ [][NextRearm]_vars

\* Main and the writer goroutines log while nobody has installed a writer.
NextLazy ==
  \E p \in {Main} \cup WriterProcs : WriteCall(p) \/ WriteStep(p)

SpecLazy == Init /\ [][NextLazy]_vars

\* Main disables the logging while the writer goroutines install writers
\* and log.
NextRace ==
  \/ Disable(Main)
  \/ DisableStore(Main)
  \/ \E p \in WriterProcs :
       \/ \E w \in Customs : SetWriter(p, w)
       \/ SetWriterStore(p)
       \/ WriteCall(p)
       \/ WriteStep(p)

SpecRace == Init /\ [][NextRace]_vars

\* Main empties the holder, with Reset, Close and SetWriter(nil), while the
\* writer goroutines log.
NextDetach ==
  \/ Reset(Main)
  \/ ResetReturn(Main)
  \/ Close(Main)
  \/ CloseWriter(Main)
  \/ SetWriter(Main, Nil)
  \/ SetWriterStore(Main)
  \/ \E p \in WriterProcs : WriteCall(p) \/ WriteStep(p)

SpecDetach == Init /\ [][NextDetach]_vars

\* ================================================================== claims
\* A write call of p has finished and has not yet returned to its caller.
Finished(p) == pc[p] = "ret"

\* The threshold a write function is documented to need.
ClaimedLevel(fn) ==
  CASE fn = "writeDebug" -> DebugLevel
    [] fn \in {"writeInfo", "writeStat"} -> InfoLevel
    [] fn \in {"writeError", "writeStack", "writeSlow"} -> ErrorLevel
    [] fn = "writeSevere" -> SevereLevel

LevelGated == {"writeDebug", "writeInfo", "writeError", "writeStack", "writeSlow",
               "writeSevere"}

\* The call of p is at or above the threshold it read; a Stat call also
\* found the stat logs enabled; Alert has no gate.
PassesGate(p) ==
  \/ loc[p].fn \in LevelGated /\ loc[p].lvl <= ClaimedLevel(loc[p].fn)
  \/ loc[p].fn = "writeStat" /\ loc[p].stat = 0 /\ loc[p].lvl # NoLevel
       /\ loc[p].lvl <= InfoLevel
  \/ loc[p].fn = "Alert"

RealBackend(w) == w.k \in {"console", "file", "custom"}

\* ------------------------------------------------------------------- C1
\* C1: a write call that handed a record to a writer read a threshold that is
\* not above its severity: Debug* only at threshold <= Debug, Info* (and
\* Stat*) only at <= Info, Error*, ErrorStack* and Slow* only at <= Error,
\* Severe* only at <= Severe, whatever SetLevel or SetUp had set.
C1_LevelGate ==
  \A p \in Procs :
    (Finished(p) /\ loc[p].n > 0 /\ loc[p].fn \in LevelGated \cup {"writeStat"})
      => (loc[p].lvl # NoLevel /\ loc[p].lvl <= ClaimedLevel(loc[p].fn))

\* An Error call made at the Severe threshold, set by a SetUp, has finished
\* without a record.
C1_Witness ==
  \E p \in Procs :
    /\ Finished(p) /\ loc[p].fn = "writeError" /\ loc[p].lvl = SevereLevel /\ loc[p].n = 0
    /\ setupOnce = "done" /\ hist.winConf.Level = "severe"

\* ------------------------------------------------------------------- C2
\* C2: a write call that started after Disable had returned, and a call that
\* was materializing the console writer when Disable ran and got its writer
\* after Disable had returned, hand their record to the no-op writer only.
C2_DisableSilences ==
  \A p \in Procs :
    (Finished(p) /\ loc[p].n > 0 /\ (loc[p].afterDisable \/ loc[p].gotAfterDisable))
      => (loc[p].w = nopWriter /\ ~RealBackend(loc[p].w))

\* One goroutine found the holder empty before Disable ran and came back from
\* StoreIfNil after it, another started its call after Disable; both have
\* written.
C2_Witness ==
  \E p, q \in Procs :
    /\ p # q
    /\ Finished(p) /\ loc[p].n = 1 /\ loc[p].afterDisable
    /\ Finished(q) /\ loc[q].n = 1 /\ loc[q].lazy /\ loc[q].gotAfterDisable
    /\ ~loc[q].afterDisable

\* ------------------------------------------------------------------- C3
\* C3: once Disable has returned, the no-op writer stays the active writer,
\* whatever facade calls follow.
C3_DisabledIsTerminal == hist.disableDone => writer = nopWriter

\* ------------------------------------------------------------------- C4
LevelOfConf(c) ==
  CASE c.Level = "debug" -> 0
    [] c.Level = "info" -> 1
    [] c.Level = "error" -> 2
    [] c.Level = "severe" -> 3
    [] OTHER -> 0

ConfValid(c) ==
  /\ ~(c.Mode = "file" /\ c.Path = "")
  /\ ~(c.Mode = "volume" /\ c.ServiceName = "")

\* C4: however many SetUp calls are made, the initialization body is entered
\* at most once and run by one caller only, and the level, the time format,
\* the encoding and the writer are the ones of that caller's configuration.
C4_OneShotSetup ==
  /\ hist.initRuns <= 1
  /\ Cardinality(hist.ran) <= 1
  /\ \A p \in Procs : pc[p] \in {"su_level", "su_time", "su_enc", "su_mode",
                                 "su_setwriter", "su_store", "su_done"}
                        => (loc[p].won /\ loc[p].c = hist.winConf)
  /\ setupOnce = "done" =>
       /\ logLevel = LevelOfConf(hist.winConf)
       /\ encoding = (IF hist.winConf.Encoding = "plain" THEN 1 ELSE 0)
       /\ timeFormat = (IF hist.winConf.TimeFormat = "" THEN "default"
                        ELSE hist.winConf.TimeFormat)
       /\ writer.k = "file"
            => (ConfValid(hist.winConf) /\ hist.winConf.Mode \in {"file", "volume"})
       /\ (hist.winConf.Mode \notin {"file", "volume"}) => writer.k = "console"

\* The winner has finished, and a caller with another configuration is
\* returning without having run the body.
C4_Witness ==
  \E p \in Procs :
    /\ setupOnce = "done" /\ pc[p] = "setup_ret" /\ ~loc[p].won
    /\ loc[p].c # hist.winConf /\ loc[p].c.Level # hist.winConf.Level

\* ------------------------------------------------------------------- C5
\* C5 as stated: every SetUp call returns nil.
C5_AllCallsSucceed ==
  \A p \in Procs : pc[p] = "setup_ret" => loc[p].err = "nil"

\* C5 as amended: no SetUp call returns before the winner's initialization
\* has finished; a caller that did not run it returns nil, whatever its
\* configuration; the winner returns nil exactly when its own initialization
\* succeeded.
C5_LosersSucceed ==
  \A p \in Procs : pc[p] = "setup_ret" =>
    /\ setupOnce = "done"
    /\ ~loc[p].won => loc[p].err = "nil"
    /\ loc[p].won => (loc[p].err = "nil" <=>
                        (ConfValid(loc[p].c)
                          /\ (loc[p].c.Mode \in {"file", "volume"} => loc[p].io)))

\* A caller that did not run the body returns nil although the winner's
\* configuration was invalid and its own is different.
C5_Witness ==
  \E p \in Procs :
    /\ pc[p] = "setup_ret" /\ ~loc[p].won /\ loc[p].err = "nil"
    /\ ~ConfValid(hist.winConf) /\ loc[p].c # hist.winConf

\* ------------------------------------------------------------------- C6
\* C6 as stated: a SetUp call with file mode and no Path, or volume mode and
\* no ServiceName, returns the error.
C6_InvalidConfFails ==
  \A p \in Procs :
    (pc[p] = "setup_ret" /\ ~ConfValid(loc[p].c))
      => loc[p].err \in {"ErrLogPathNotSet", "ErrLogServiceNameNotSet"}

\* C6 as amended: the SetUp call that runs the initialization returns
\* ErrLogPathNotSet for file mode without Path and ErrLogServiceNameNotSet for
\* volume mode without ServiceName, and MustSetup then exits the process
\* instead of returning; a call that does not run it returns nil.
C6_FirstInvalidConfFails ==
  \A p \in Procs :
    /\ (pc[p] = "setup_ret" /\ loc[p].won /\ loc[p].c.Mode = "file" /\ loc[p].c.Path = "")
         => loc[p].err = "ErrLogPathNotSet"
    /\ (pc[p] = "setup_ret" /\ loc[p].won /\ loc[p].c.Mode = "volume"
          /\ loc[p].c.ServiceName = "")
         => loc[p].err = "ErrLogServiceNameNotSet"
    /\ (pc[p] = "setup_ret" /\ ~loc[p].won) => loc[p].err = "nil"
    /\ (loc[p].must /\ loc[p].won /\ ~ConfValid(loc[p].c))
         => (pc[p] # "idle" /\ (Finished(p) => exited))

\* MustSetup with volume mode and no ServiceName has exited the process.
C6_Witness ==
  \E p \in Procs :
    /\ exited /\ Finished(p) /\ loc[p].must /\ loc[p].won
    /\ loc[p].c.Mode = "volume" /\ loc[p].c.ServiceName = ""
    /\ loc[p].err = "ErrLogServiceNameNotSet"

\* ------------------------------------------------------------------- C7
\* Main's write call came right after Reset(); SetWriter(w) with a writer w.
AfterResetSetWriter == Finished(Main) /\ loc[Main].scnSt = "set" /\ loc[Main].scnW # Nil

\* Reset hands back the writer that Main's last write call went to.
ResetReturnsPrevious ==
  (pc[Main] = "reset_ret" /\ hist.scnPrev # Nil) => loc[Main].w = hist.scnPrev

\* C7 as stated: after Reset(); SetWriter(w), a write call that passes its
\* gate hands its record to w and to no other writer, and Reset returns the
\* previous writer.
C7_ResetSetWriterWrite ==
  /\ (AfterResetSetWriter /\ PassesGate(Main))
       => (loc[Main].n = 1 /\ loc[Main].w = loc[Main].scnW)
  /\ ResetReturnsPrevious

\* C7 as amended: the same, provided Disable has not been called.
C7_ResetSetWriterWriteEnabled ==
  /\ (AfterResetSetWriter /\ PassesGate(Main) /\ ~loc[Main].afterDisable)
       => (loc[Main].n = 1 /\ loc[Main].w = loc[Main].scnW)
  /\ ResetReturnsPrevious

\* Main wrote to one custom writer, took it out with Reset, installed
\* another and wrote to that one.
C7_Witness ==
  /\ AfterResetSetWriter /\ loc[Main].n = 1
  /\ loc[Main].scnW \in Customs /\ loc[Main].w = loc[Main].scnW
  /\ saved \in Customs /\ saved # loc[Main].scnW
  /\ ~loc[Main].afterDisable

\* ------------------------------------------------------------------- C8
WithCaller == {"writeDebug", "writeInfo", "writeError", "writeSlow", "writeStat"}

OneRecordToActiveWriter(p) ==
  /\ loc[p].n = 1
  /\ loc[p].w # Nil
  /\ ~loc[p].moved => loc[p].w = loc[p].held

\* C8 as stated: a write call that passes its gate hands exactly one record
\* to the active writer, and the record has the caller field, for every
\* entry point.
C8_OneRecordWithCaller ==
  \A p \in Procs :
    (Finished(p) /\ PassesGate(p)) => (OneRecordToActiveWriter(p) /\ loc[p].caller)

\* C8 as amended: a write call that passes its gate hands exactly one record
\* to the active writer; the record has the caller field for Debug, Info,
\* Error, Slow and Stat and has none for Severe, ErrorStack and Alert.
C8_OneRecordCallerWhereAdded ==
  \A p \in Procs :
    (Finished(p) /\ PassesGate(p))
      => (OneRecordToActiveWriter(p) /\ (loc[p].caller <=> loc[p].fn \in WithCaller))

\* A Severe call has handed its record, without caller field, to the file
\* writer that a SetUp had installed.
C8_Witness ==
  \E p \in Procs :
    /\ Finished(p) /\ loc[p].fn = "writeSevere" /\ loc[p].n = 1 /\ ~loc[p].caller
    /\ loc[p].w = FileWriter

\* ------------------------------------------------------------------- C9
\* C9: in the initial state of the process an Info call goes to a console
\* writer made for it and a Debug call delivers nothing.
C9_InitialDefaults ==
  (Finished(Main) /\ loc[Main].pristine) =>
    /\ loc[Main].fn = "writeInfo" => (loc[Main].n = 1 /\ loc[Main].w.k = "console")
    /\ loc[Main].fn = "writeDebug" => (loc[Main].n = 0 /\ loc[Main].lvl = InfoLevel)

\* ------------------------------------------------------------------ C10
\* C10: when Reset returns, the holder is empty and the threshold is back at
\* its initial value.
C10_ResetResetsLevel ==
  pc[Main] = "reset_ret" => (writer = Nil /\ logLevel = 0)

\* ------------------------------------------------------------------ C11
\* C11: once SetUp has run, a SetUp call that follows Reset and Close calls
\* does not run the initialization: it returns nil and leaves the level, the
\* encoding, the time format and the empty holder as it found them, and the
\* write call after it goes to a console writer made for it.
C11_ResetDoesNotRearm ==
  /\ (pc[Main] = "setup_ret" /\ hist.rearm = "detached")
       => /\ loc[Main].err = "nil" /\ ~loc[Main].won
          /\ <<logLevel, encoding, timeFormat, writer>> = loc[Main].pre
          /\ writer = Nil
  /\ (Finished(Main) /\ loc[Main].rearm = "resetup" /\ PassesGate(Main))
       => /\ loc[Main].n = 1 /\ loc[Main].lazy
          /\ loc[Main].w.k = "console" /\ loc[Main].w \notin closed

\* SetUp installed the file writer, Close closed it, a second SetUp asked for
\* another configuration, and the write call after it went to a new console
\* writer.
C11_Witness ==
  /\ Finished(Main) /\ loc[Main].rearm = "resetup" /\ loc[Main].n = 1
  /\ loc[Main].w.k = "console" /\ writer = loc[Main].w
  /\ hist.winConf.Mode = "file" /\ FileWriter \in closed

\* ------------------------------------------------------------------ C12
\* C12: while goroutines log and nobody installs or detaches a writer, the
\* holder is filled once, with a console writer, and never again, and every
\* call that got a writer from getWriter got the one in the holder and hands
\* its record to it.
C12_LazyInstallOnce ==
  /\ [](/\ writer = Nil \/ writer.k = "console"
        /\ \A p \in Procs : pc[p] \in {"emit", "ret"} /\ loc[p].w # Nil
                               => loc[p].w = writer
        /\ \A p \in Procs : (Finished(p) /\ PassesGate(p))
                               => (loc[p].n = 1 /\ loc[p].w = writer))
  /\ [][writer # Nil => writer' = writer]_vars

\* Both goroutines found the holder empty and made a console writer, and
\* both have handed their record to the one that is in the holder.
C12_Witness ==
  \E p, q \in Procs :
    /\ p # q
    /\ Finished(p) /\ loc[p].lazy /\ loc[p].n = 1
    /\ Finished(q) /\ loc[q].lazy /\ loc[q].n = 1
    /\ loc[p].w = writer /\ loc[q].w = writer /\ writer.k = "console"

\* ------------------------------------------------------------------ C13
\* C13: a Stat call hands over a record exactly when DisableStat has not been
\* called and the threshold is at most Info; once DisableStat has been
\* called the stat logs stay off whatever SetLevel, SetUp, SetWriter and
\* Reset calls follow; the other severities depend on the threshold alone.
C13_StatGate ==
  /\ hist.statOff <=> disableStat # 0
  /\ (Finished(Main) /\ loc[Main].fn = "writeStat")
       => (loc[Main].n = 1 <=> (~hist.statOff /\ logLevel <= InfoLevel))
  /\ (Finished(Main) /\ loc[Main].fn \in LevelGated)
       => (loc[Main].n = 1 <=> logLevel <= ClaimedLevel(loc[Main].fn))

\* DisableStat was called, SetUp has run and a custom writer is installed: a
\* Stat call at the Debug threshold has finished without a record.
C13_Witness ==
  /\ Finished(Main) /\ loc[Main].fn = "writeStat" /\ loc[Main].n = 0
  /\ hist.statOff /\ logLevel = DebugLevel
  /\ setupOnce = "done" /\ writer \in Customs

\* ------------------------------------------------------------------ C14
\* C14: Must with a nil error hands over nothing and does not exit; Must
\* with an error hands one Severe record to the writer getWriter gave it,
\* the active one, and exits; the process has exited only after such a
\* record, and a Must that was given an error never returns.
C14_MustLogsThenExits ==
  /\ [](/\ (Finished(Main) /\ loc[Main].fn = "Must" /\ loc[Main].err = "nil")
             => (loc[Main].n = 0 /\ ~exited)
        /\ (Finished(Main) /\ loc[Main].fn = "Must" /\ loc[Main].err # "nil")
             => (loc[Main].n = 1 /\ exited /\ loc[Main].w # Nil
                 /\ loc[Main].w = loc[Main].held)
        /\ exited => \E p \in Procs : Finished(p) /\ loc[p].fn = "Must" /\ loc[p].n = 1
        /\ (pc[Main] \in WritePcs /\ pc[Main] # "ret" /\ loc[Main].fn = "Must") => ~exited
        /\ pc[Main] = "exit" => (loc[Main].n = 1 /\ loc[Main].err # "nil"))
  /\ [][/\ (loc[Main].fn = "Must" /\ loc[Main].err # "nil") => pc'[Main] # "idle"
        /\ (pc[Main] = "idle" /\ pc'[Main] = "ret" /\ loc'[Main].fn = "Must")
             => UNCHANGED <<globals, closed, exited, saved>>]_vars

\* Must was given an error while a custom writer was installed: the record
\* went to that writer and the process has exited.
C14_Witness ==
  /\ Finished(Main) /\ loc[Main].fn = "Must" /\ loc[Main].err # "nil"
  /\ loc[Main].n = 1 /\ exited /\ loc[Main].w \in Customs /\ writer = loc[Main].w

\* ------------------------------------------------------------------ C15
\* C15: once Disable has returned and no SetWriter call is under way, the
\* no-op writer is the active writer, however the SetWriter calls and the
\* Disable call were interleaved.
C15_SetWriterLosesToDisable ==
  (hist.disableDone /\ \A p \in Procs : pc[p] \notin {"disable_store", "setwriter_store"})
    => (writer = nopWriter /\ writer \notin Customs)

\* ------------------------------------------------------------------ C16
\* The writer the winner's configuration asks for, once its setup succeeded.
WriterOfWinner ==
  IF hist.winConf.Mode \in {"file", "volume"} THEN writer = FileWriter
  ELSE writer.k = "console"

\* C16: a SetUp call returns only after the initialization of the first
\* caller has finished: the level, the time format and the encoding of that
\* caller's configuration are in place then, and so is its writer when its
\* setup succeeded; a caller arriving while the initialization runs waits.
C16_ReturnAfterInit ==
  /\ [](\A p \in Procs : pc[p] = "setup_ret" =>
          /\ setupOnce = "done"
          /\ \A q \in Procs : pc[q] \notin {"su_level", "su_time", "su_enc", "su_mode",
                                               "su_setwriter", "su_store", "su_done"}
          /\ logLevel = LevelOfConf(hist.winConf)
          /\ encoding = (IF hist.winConf.Encoding = "plain" THEN plainEncodingType
                          ELSE jsonEncodingType)
          /\ hist.winConf.TimeFormat # "" => timeFormat = hist.winConf.TimeFormat
          /\ hist.winErr = "nil" => WriterOfWinner)
  /\ [][\A p \in Procs : (pc[p] = "once" /\ setupOnce = "running") => pc'[p] = "once"]_vars

\* A caller that arrived while the winner was initializing has waited and is
\* returning with the winner's file writer installed.
C16_Witness ==
  \E p \in Procs :
    /\ pc[p] = "setup_ret" /\ ~loc[p].won /\ loc[p].c # hist.winConf
    /\ hist.winErr = "nil" /\ writer = FileWriter
    /\ \E q \in Procs : q # p /\ pc[q] = "setup_ret" /\ loc[q].won

\* ------------------------------------------------------------------ C17
\* C17: Close never closes a writer that has been closed already, and no
\* write call hands its record to a writer that has been closed.
C17_NoUseAfterClose ==
  [][\A p \in Procs :
       /\ (pc[p] = "close_w" /\ pc'[p] = "idle") => loc[p].w \notin closed
       /\ (pc[p] = "emit" /\ pc'[p] # "emit") => loc[p].w \notin closed]_vars

\* ------------------------------------------------------------------ C18
\* C18: a write call never calls a nil writer: the writer getWriter returned
\* to it is not nil, whatever Reset, Close and SetWriter(nil) calls ran before
\* or between the Load and the StoreIfNil of getWriter, and a call that
\* passes its gate hands its record to that writer.
C18_WriterNeverNil ==
  \A p \in Procs :
    /\ pc[p] \in {"emit", "exit"} => loc[p].w # Nil
    /\ (Finished(p) /\ PassesGate(p)) => (loc[p].n = 1 /\ loc[p].w # Nil)

\* A call found the holder empty and installed a console writer, the holder
\* was emptied again before the call used the writer, and the record went to
\* the console writer.
C18_Witness ==
  \E p \in WriterProcs :
    /\ Finished(p) /\ loc[p].lazy /\ loc[p].moved /\ loc[p].n = 1
    /\ loc[p].w.k = "console" /\ writer = Nil

\* ------------------------------------------------------------------ C19
\* C19: when a SetUp call returns an error, the level, the encoding, the
\* time format and the holder are as the call found them, and a later SetUp
\* call with a valid configuration configures the logging: after a failed
\* SetUp, a SetUp for console output returns with its level in place and a
\* console writer installed.
C19_FailedSetUpLeavesState ==
  /\ (pc[Main] = "setup_ret" /\ loc[Main].err # "nil")
       => <<logLevel, encoding, timeFormat, writer>> = loc[Main].pre
  /\ (pc[Main] = "setup_ret" /\ ~loc[Main].won /\ hist.winErr # "nil"
        /\ loc[Main].c.Mode \notin {"file", "volume"})
       => (logLevel = LevelOfConf(loc[Main].c) /\ writer.k = "console")

\* ------------------------------------------------------------------ C20
\* C20: an Alert call hands exactly one alert to the active writer at every
\* threshold, also above Severe, and that writer is the no-op writer only
\* when Disable has been called.
C20_AlertUngated ==
  (Finished(Main) /\ loc[Main].fn = "Alert")
    => /\ loc[Main].n = 1 /\ loc[Main].lvl = NoLevel
       /\ loc[Main].w # Nil /\ loc[Main].w = writer /\ loc[Main].w = loc[Main].held
       /\ loc[Main].w = nopWriter => disableLog # 0

\* An Alert call at a threshold above Severe has handed its alert to the
\* custom writer that is installed.
C20_Witness ==
  /\ Finished(Main) /\ loc[Main].fn = "Alert" /\ loc[Main].n = 1
  /\ logLevel > SevereLevel /\ loc[Main].w \in Customs /\ writer = loc[Main].w

====
